---------------------------- MODULE Spec2Model ----------------------------
(***************************************************************************)
(* Model of server/similarity_functions/similarity.py: the Similarity      *)
(* class.  The constructor is modelled phase by phase (open the bible      *)
(* file, flatten it, the testing shortcut, load GloVe, tokenize, vectorize,*)
(* build the cosine matrix) and get_similar_values as one action.          *)
(*                                                                         *)
(* Python lists are sequences; a Python index i is position i + 1.  The    *)
(* verse dicts are objects on a heap, so that aliasing (testing mode) and  *)
(* copy.deepcopy are visible.  A numpy vector is kept run-length encoded:  *)
(* a sequence of runs [v |-> value, n |-> count].                          *)
(***************************************************************************)
EXTENDS Integers, Sequences, FiniteSets

VARIABLES
    pc,            \* position of the constructor / "ready" / "failed"
    args,          \* the constructor's arguments and the argsort tie order
    bible_json,    \* the content of the bible file (nested, immutable)
    heap,          \* the verse dicts, by reference
    assigned,      \* the attributes of self that have been assigned
    bible_data,    \* self.bible_data: books -> chapters -> verse references
    verse_data,    \* self.verse_data: list of verse references
    bible_verses,  \* self.bible_verses: list of verse references
    sim_matrix,    \* self.sim_matrix: list of rows
    raised,        \* the exception that ended the constructor, or "none"
    earlier,       \* the kinds of query answered before the current one
    last           \* the call of get_similar_values being answered

vars == <<pc, args, bible_json, heap, assigned, bible_data, verse_data,
          bible_verses, sim_matrix, raised, earlier, last>>

---------------------------------------------------------------------------
\* Program constants and bounds

MAX_LEN == 24

GloveDim == 200

None == -1

MaxVerses == 3

MaxCount == 2

MaxExtra == 1

SimScale == 100

---------------------------------------------------------------------------
\* Python list helpers

Min(a, b) == IF a < b THEN a ELSE b

PyAt(s, i) == s[i + 1]

PySliceFrom(s, a) == SubSeq(s, Min(a, Len(s)) + 1, Len(s))

PySliceTo(s, k) == SubSeq(s, 1, Min(k, Len(s)))

Reversed(s) == [i \in 1..Len(s) |-> s[Len(s) + 1 - i]]

RECURSIVE Concat(_)
Concat(ss) == IF ss = <<>> THEN <<>> ELSE Head(ss) \o Concat(Tail(ss))

SetKey(d, k, val) ==
    [x \in DOMAIN d \cup {k} |-> IF x = k THEN val ELSE d[x]]

---------------------------------------------------------------------------
\* numpy vectors, run-length encoded

Zeros(n) == IF n = 0 THEN <<>> ELSE <<[v |-> 0, n |-> n]>>

NpAppend(vector, more) == vector \o more

RECURSIVE Shape0(_)
Shape0(vector) ==
    IF vector = <<>> THEN 0 ELSE Head(vector).n + Shape0(Tail(vector))

RECURSIVE Dot(_, _)
Dot(a, b) ==
    IF a = <<>> \/ b = <<>> THEN 0
    ELSE LET m == Min(Head(a).n, Head(b).n)
             ra == IF Head(a).n = m THEN Tail(a)
                   ELSE <<[v |-> Head(a).v, n |-> Head(a).n - m]>> \o Tail(a)
             rb == IF Head(b).n = m THEN Tail(b)
                   ELSE <<[v |-> Head(b).v, n |-> Head(b).n - m]>> \o Tail(b)
         IN  m * Head(a).v * Head(b).v + Dot(ra, rb)

\* The elements [from, from + count) of a vector, 0 <= from.
RECURSIVE NpSlice(_, _, _)
NpSlice(vector, from, count) ==
    IF count = 0 \/ vector = <<>> THEN <<>>
    ELSE IF from >= Head(vector).n
         THEN NpSlice(Tail(vector), from - Head(vector).n, count)
         ELSE LET take == Min(Head(vector).n - from, count)
              IN  <<[v |-> Head(vector).v, n |-> take]>> \o
                  NpSlice(Tail(vector), 0, count - take)

\* Canonical form: adjacent runs of one value merged, so that two encodings
\* of the same vector are equal.
RECURSIVE Canon(_)
Canon(vector) ==
    IF Len(vector) <= 1 THEN vector
    ELSE LET rest == Canon(Tail(vector))
         IN  IF Head(rest).v = Head(vector).v
             THEN <<[v |-> Head(vector).v, n |-> Head(vector).n + Head(rest).n]>>
                  \o Tail(rest)
             ELSE <<Head(vector)>> \o rest

---------------------------------------------------------------------------
\* The inputs: the bible file and the GloVe file

RefNames ==
    <<"Genesis 1:1", "Genesis 1:2", "Genesis 2:1", "Exodus 1:1", "Exodus 1:2",
      "Exodus 2:1">>

UnknownRef == "Nowhere 1:1"

\* A text is the sequence of its lexemes: words, punctuation marks and the
\* blanks between them.
LongText(m) ==
    [i \in 1..(2 * m - 1) |->
        IF i % 2 = 0 THEN " "
        ELSE IF (i + 1) \div 2 < MAX_LEN THEN "good"
        ELSE IF (i + 1) \div 2 = MAX_LEN THEN "lord"
        ELSE "apples"]

Texts ==
    { <<"the", ",", " ", "is">>,
      <<"lord", ",", " ", "shepherd">>,
      <<"Yahweh", " ", "shepherd">>,
      LongText(MAX_LEN),
      LongText(MAX_LEN + MaxExtra) }

\* The corpora: up to MaxVerses verses, no text twice.
FlatCorpora ==
    UNION { {c \in [1..n -> Texts] : \A i, j \in 1..n : i # j => c[i] # c[j]} :
            n \in 0..MaxVerses }

\* The nesting of the file: the first chapter holds two verses, the others
\* one; a book holds two chapters.
RECURSIVE Singles(_)
Singles(s) == IF s = <<>> THEN <<>> ELSE <<<<Head(s)>>>> \o Singles(Tail(s))

RECURSIVE Pairs(_)
Pairs(s) ==
    IF s = <<>> THEN <<>>
    ELSE IF Len(s) = 1 THEN <<s>>
    ELSE <<SubSeq(s, 1, 2)>> \o Pairs(SubSeq(s, 3, Len(s)))

BibleFile(texts) ==
    LET verses == [i \in 1..Len(texts) |->
                      [verse |-> RefNames[i], text |-> texts[i]]]
        chapters == IF Len(verses) <= 2
                    THEN Singles(verses)
                    ELSE <<SubSeq(verses, 1, 2)>>
                         \o Singles(SubSeq(verses, 3, Len(verses)))
        books == Pairs(chapters)
    IN  [b \in 1..Len(books) |->
            [data |-> [c \in 1..Len(books[b]) |-> [verses |-> books[b][c]]]]]

\* glove_words: the rows of the GloVe file, each of dimension GloveDim.
GloveIndex == {"lord", "shepherd", "good", "apples", "god"}

GloveRow(word) ==
    CASE word = "lord" -> <<[v |-> 1, n |-> GloveDim]>>
      [] word = "shepherd" -> <<[v |-> 2, n |-> GloveDim \div 2],
                                [v |-> -1, n |-> GloveDim - GloveDim \div 2]>>
      [] word = "good" -> <<[v |-> 1, n |-> GloveDim \div 2],
                            [v |-> 0, n |-> GloveDim - GloveDim \div 2]>>
      [] word = "apples" -> <<[v |-> -1, n |-> GloveDim]>>
      [] OTHER -> <<[v |-> 1, n |-> GloveDim \div 2],
                    [v |-> 1, n |-> GloveDim - GloveDim \div 2]>>

StopWords == {"the", "is", "my", "i"}

Punctuation == {",", ".", ";", ":", "!"}

---------------------------------------------------------------------------
\* json.load and the flattening loops of __init__

RECURSIVE FlattenVerses(_)
FlattenVerses(nested) ==
    IF nested = <<>> THEN <<>>
    ELSE Concat([c \in 1..Len(Head(nested).data) |->
                    Head(nested).data[c].verses])
         \o FlattenVerses(Tail(nested))

\* json.load: one dict per verse entry, in document order; the loaded
\* structure refers to them.
JsonLoad(json) ==
    LET flat == FlattenVerses(json)
        n == Len(flat)
        RECURSIVE Refs(_, _)
        Refs(nested, next) ==
            IF nested = <<>> THEN <<>>
            ELSE LET book == Head(nested)
                     sizes == [c \in 1..Len(book.data) |->
                                  Len(book.data[c].verses)]
                     RECURSIVE Before(_)
                     Before(c) == IF c = 0 THEN 0
                                  ELSE sizes[c] + Before(c - 1)
                     total == Before(Len(book.data))
                 IN  <<[data |-> [c \in 1..Len(book.data) |->
                          [verses |-> [k \in 1..sizes[c] |->
                                          next + Before(c - 1) + k]]]]>>
                     \o Refs(Tail(nested), next + total)
    IN  [heap |-> [r \in 1..n |-> flat[r]], data |-> Refs(json, 0)]

---------------------------------------------------------------------------
\* tokenize_data

ContainsYahweh(val) == val \in {"Yahweh", "Yahwehs"}

ReplaceYahweh(val) ==
    CASE val = "Yahweh" -> "God"
      [] val = "Yahwehs" -> "Gods"
      [] OTHER -> val

StripPunctuation(text) == SelectSeq(text, LAMBDA ch : ch \notin Punctuation)

word_tokenize(text) == SelectSeq(text, LAMBDA lex : lex # " ")

RECURSIVE FinalText(_)
FinalText(tokenized_text) ==
    IF tokenized_text = <<>> THEN <<>>
    ELSE LET val == Head(tokenized_text)
         IN  IF val \notin StopWords
             THEN <<IF ContainsYahweh(val) THEN ReplaceYahweh(val) ELSE val>>
                  \o FinalText(Tail(tokenized_text))
             ELSE FinalText(Tail(tokenized_text))

\* TokenizeVerse that also stores the stripped text back under 'text'.
TokenizeVerseOverwritesText(st, verse) ==
    LET text == StripPunctuation(st.heap[verse].text)
        final_text == FinalText(word_tokenize(text))
    IN  [heap |-> [st.heap EXCEPT ![verse] =
                      SetKey(SetKey(@, "text", text), "tokenized_text", final_text)],
         result |-> Append(st.result, verse)]

\* One turn of the loop over verse_data: the dict is changed in place and
\* appended to the result.
TokenizeVerse(st, verse) ==
    LET final_text == FinalText(word_tokenize(StripPunctuation(st.heap[verse].text)))
    IN  [heap |-> [st.heap EXCEPT ![verse] =
                      SetKey(@, "tokenized_text", final_text)],
         result |-> Append(st.result, verse)]

RECURSIVE TokenizeLoop(_, _)
TokenizeLoop(st, todo) ==
    IF todo = <<>> THEN st
    ELSE TokenizeLoop(TokenizeVerse(st, Head(todo)), Tail(todo))

tokenize_data(h, data) == TokenizeLoop([heap |-> h, result |-> <<>>], data)

---------------------------------------------------------------------------
\* get_glove_vector and convert_to_glove_vectors

\* glove_words.loc[word]: a KeyError becomes a ValueError.
get_glove_vector(word) ==
    IF word \in GloveIndex
    THEN [raises |-> "none", value |-> GloveRow(word)]
    ELSE [raises |-> "ValueError", value |-> <<>>]

\* AppendWord with a handler that appends nothing for a missing word.
AppendWordSkipsMiss(st, word) ==
    LET got == get_glove_vector(word)
    IN  IF got.raises = "none"
        THEN [vector |-> NpAppend(st.vector, got.value), raises |-> "none"]
        ELSE IF got.raises = "ValueError"
        THEN [vector |-> st.vector, raises |-> "none"]
        ELSE [vector |-> st.vector, raises |-> got.raises]

\* One turn of the loop over the first MAX_LEN words: `except ValueError`
\* appends a zero block; any other exception leaves the loop.
AppendWord(st, word) ==
    LET got == get_glove_vector(word)
    IN  IF got.raises = "none"
        THEN [vector |-> NpAppend(st.vector, got.value), raises |-> "none"]
        ELSE IF got.raises = "ValueError"
        THEN [vector |-> NpAppend(st.vector, Zeros(GloveDim)), raises |-> "none"]
        ELSE [vector |-> st.vector, raises |-> got.raises]

RECURSIVE AppendWords(_, _)
AppendWords(st, words) ==
    IF words = <<>> \/ st.raises # "none" THEN st
    ELSE AppendWords(AppendWord(st, Head(words)), Tail(words))

PadVector(vector) ==
    IF Shape0(vector) < MAX_LEN * GloveDim
    THEN NpAppend(vector, Zeros(MAX_LEN * GloveDim - Shape0(vector)))
    ELSE vector

\* VerseVector without the [:MAX_LEN] cut.
VerseVectorNoCut(tokenized_text) ==
    LET st == AppendWords([vector |-> <<>>, raises |-> "none"], tokenized_text)
    IN  IF st.raises # "none" THEN st
        ELSE [vector |-> PadVector(st.vector), raises |-> "none"]

VerseVector(tokenized_text) ==
    LET st == AppendWords([vector |-> <<>>, raises |-> "none"],
                          PySliceTo(tokenized_text, MAX_LEN))
    IN  IF st.raises # "none" THEN st
        ELSE [vector |-> PadVector(st.vector), raises |-> "none"]

ConvertVerse(st, verse) ==
    LET vv == VerseVector(st.heap[verse].tokenized_text)
    IN  IF vv.raises # "none"
        THEN [heap |-> st.heap, result |-> st.result, raises |-> vv.raises]
        ELSE [heap |-> [st.heap EXCEPT ![verse] = SetKey(@, "vector", vv.vector)],
              result |-> Append(st.result, verse), raises |-> "none"]

RECURSIVE ConvertLoop(_, _)
ConvertLoop(st, todo) ==
    IF todo = <<>> \/ st.raises # "none" THEN st
    ELSE ConvertLoop(ConvertVerse(st, Head(todo)), Tail(todo))

convert_to_glove_vectors(h, data) ==
    ConvertLoop([heap |-> h, result |-> <<>>, raises |-> "none"], data)

---------------------------------------------------------------------------
\* sklearn's cosine_similarity.  An entry is kept in fixed point as the
\* signed square of the cosine, scaled by SimScale: the order of the entries
\* is the order of the cosines.  A zero vector has similarity 0 to all.

Cosine(a, b) ==
    LET d == Dot(a, b)
        na == Dot(a, a)
        nb == Dot(b, b)
    IN  IF na = 0 \/ nb = 0 THEN 0
        ELSE IF d >= 0 THEN (d * d * SimScale) \div (na * nb)
        ELSE 0 - ((d * d * SimScale) \div (na * nb))

cosine_similarity(vectors) ==
    [i \in 1..Len(vectors) |->
        [j \in 1..Len(vectors) |-> Cosine(vectors[i], vectors[j])]]

NpZeros(n) == [i \in 1..n |-> [j \in 1..n |-> 0]]

---------------------------------------------------------------------------
\* get_similar_values

\* np.argsort: the positions 0..len-1 by ascending value.  The default sort
\* is not stable: the order of equal values is whatever the numpy build
\* does, here the ranking `ties` of the positions.
ArgSort(values, ties) ==
    LET n == Len(values)
        Before(i, j) == \/ values[i + 1] < values[j + 1]
                        \/ /\ values[i + 1] = values[j + 1]
                           /\ ties[i] < ties[j]
    IN  [r \in 1..n |->
            CHOOSE i \in 0..(n - 1) :
                Cardinality({j \in 0..(n - 1) : Before(j, i)}) = r - 1]

TieOrders ==
    LET idx == 0..(MaxVerses - 2)
    IN  {f \in [idx -> idx] : \A i, j \in idx : i # j => f[i] # f[j]}

ProperIndex(h, data, verse) ==
    LET hits == {i \in 0..(Len(data) - 1) : h[PyAt(data, i)].verse = verse}
    IN  IF hits = {} THEN None
        ELSE CHOOSE i \in hits : \A j \in hits : i <= j

\* SimText with the self column kept: the whole row.
SimTextWholeRow(matrix, proper_index) ==
    IF proper_index = None THEN <<>>
    ELSE PyAt(matrix, proper_index)

\* sim_matrix[proper_index][1:].  Indexing a numpy array by None adds an
\* axis of length 1 in front, and [1:] of that is empty.
SimText(matrix, proper_index) ==
    IF proper_index = None THEN <<>>
    ELSE PySliceFrom(PyAt(matrix, proper_index), 1)

FinalIndices(sim_text, ties, total_values) ==
    PySliceTo(Reversed(ArgSort(sim_text, ties)), total_values)

get_similar_values(verse, total_values) ==
    LET proper_index == ProperIndex(heap, verse_data, verse)
        sim_text == SimText(sim_matrix, proper_index)
        final_indices == FinalIndices(sim_text, args.ties, total_values)
    IN  IF \E k \in 1..Len(final_indices) :
               final_indices[k] >= Len(bible_verses)
        THEN [raises |-> "IndexError", proper_index |-> proper_index,
              final_indices |-> final_indices, final_text |-> <<>>]
        ELSE [raises |-> "none", proper_index |-> proper_index,
              final_indices |-> final_indices,
              final_text |-> [k \in 1..Len(final_indices) |->
                                 PyAt(bible_verses, final_indices[k])]]

---------------------------------------------------------------------------
\* copy.deepcopy of the list of verse dicts: a new dict per verse

deepcopy(h, data) ==
    LET base == Len(h)
    IN  [heap |-> [r \in 1..(base + Len(data)) |->
                      IF r <= base THEN h[r] ELSE h[data[r - base]]],
         result |-> [i \in 1..Len(data) |-> base + i]]

Vectors(h, data) == [i \in 1..Len(data) |-> h[data[i]].vector]

Keys(h, data, i) == DOMAIN h[PyAt(data, i)]

NoCall ==
    [called |-> FALSE, verse |-> "", total_values |-> 0, raises |-> "none",
     proper_index |-> None, final_indices |-> <<>>, final_text |-> <<>>]

QueryRefs == {RefNames[i] : i \in 1..MaxVerses} \cup {UnknownRef}

---------------------------------------------------------------------------
\* The state machine

Init ==
    /\ pc = "start"
    /\ args \in [bible_file_ok : BOOLEAN, glove_file_ok : BOOLEAN,
                 testing : BOOLEAN, ties : TieOrders]
    /\ bible_json = <<>>
    /\ heap = <<>>
    /\ assigned = {}
    /\ bible_data = <<>>
    /\ verse_data = <<>>
    /\ bible_verses = <<>>
    /\ sim_matrix = <<>>
    /\ raised = "none"
    /\ earlier = {}
    /\ last = NoCall

\* __init__, lines 37-43: the bible file is checked and loaded.
OpenBible ==
    /\ pc = "start"
    /\ \/ /\ args.bible_file_ok
          /\ \E texts \in FlatCorpora :
                LET loaded == JsonLoad(BibleFile(texts))
                IN  /\ bible_json' = BibleFile(texts)
                    /\ heap' = loaded.heap
                    /\ bible_data' = loaded.data
          /\ verse_data' = <<>>
          /\ bible_verses' = <<>>
          /\ assigned' = {"bible_data", "verse_data", "bible_verses"}
          /\ pc' = "flatten"
          /\ UNCHANGED raised
       \/ /\ ~args.bible_file_ok
          /\ pc' = "failed"
          /\ raised' = "ValueError"
          /\ UNCHANGED <<bible_json, heap, bible_data, verse_data,
                         bible_verses, assigned>>
    /\ UNCHANGED <<args, sim_matrix, earlier, last>>

\* __init__, lines 44-47.
FlattenCorpus ==
    /\ pc = "flatten"
    /\ verse_data' = FlattenVerses(bible_data)
    /\ pc' = "flattened"
    /\ UNCHANGED <<args, bible_json, heap, assigned, bible_data, bible_verses,
                   sim_matrix, raised, earlier, last>>

\* __init__, lines 48-53: the testing shortcut.
TestingMatrix ==
    /\ pc = "flattened"
    /\ args.testing
    /\ bible_verses' = verse_data
    /\ sim_matrix' = NpZeros(Len(verse_data))
    /\ assigned' = assigned \cup {"sim_matrix"}
    /\ pc' = "ready"
    /\ UNCHANGED <<args, bible_json, heap, bible_data, verse_data, raised,
                   earlier, last>>

\* LoadGlove whose error is reported but not raised.
LoadGloveNoRaise ==
    /\ pc = "flattened"
    /\ ~args.testing
    /\ \/ /\ args.glove_file_ok
          /\ assigned' = assigned \cup {"glove_words"}
       \/ /\ ~args.glove_file_ok
          /\ UNCHANGED assigned
    /\ pc' = "glove_loaded"
    /\ UNCHANGED <<args, bible_json, heap, bible_data, verse_data,
                   bible_verses, sim_matrix, raised, earlier, last>>

\* __init__, lines 55-61: the GloVe file is checked and loaded.
LoadGlove ==
    /\ pc = "flattened"
    /\ ~args.testing
    /\ \/ /\ args.glove_file_ok
          /\ assigned' = assigned \cup {"glove_words"}
          /\ pc' = "glove_loaded"
          /\ UNCHANGED raised
       \/ /\ ~args.glove_file_ok
          /\ pc' = "failed"
          /\ raised' = "ValueError"
          /\ UNCHANGED assigned
    /\ UNCHANGED <<args, bible_json, heap, bible_data, verse_data,
                   bible_verses, sim_matrix, earlier, last>>

\* The assertions of lines 69 and 72 on the first verse of both lists.
AssertKeysDiffer(h, data, verses) ==
    IF Len(data) = 0 \/ Len(verses) = 0 THEN "IndexError"
    ELSE IF Keys(h, data, 0) = Keys(h, verses, 0) THEN "AssertionError"
    ELSE "none"

\* __init__, lines 64-69: the display copy, tokenization, the assertion.
Tokenize ==
    /\ pc = "glove_loaded"
    /\ LET copied == deepcopy(heap, verse_data)
           done == tokenize_data(copied.heap, verse_data)
           exc == AssertKeysDiffer(done.heap, done.result, copied.result)
       IN  /\ heap' = done.heap
           /\ bible_verses' = copied.result
           /\ verse_data' = done.result
           /\ assigned' = assigned \cup {"stopwords_list", "exclude"}
           /\ raised' = exc
           /\ pc' = IF exc = "none" THEN "tokenized" ELSE "failed"
    /\ UNCHANGED <<args, bible_json, bible_data, sim_matrix, earlier, last>>

\* __init__, lines 70-72.
Vectorize ==
    /\ pc = "tokenized"
    /\ LET done == convert_to_glove_vectors(heap, verse_data)
           exc == IF done.raises # "none" THEN done.raises
                  ELSE AssertKeysDiffer(done.heap, done.result, bible_verses)
       IN  /\ heap' = done.heap
           /\ verse_data' = IF done.raises # "none" THEN verse_data
                            ELSE done.result
           /\ raised' = exc
           /\ pc' = IF exc = "none" THEN "vectorized" ELSE "failed"
    /\ UNCHANGED <<args, bible_json, assigned, bible_data, bible_verses,
                   sim_matrix, earlier, last>>

\* __init__, lines 73-75.
BuildMatrix ==
    /\ pc = "vectorized"
    /\ sim_matrix' = cosine_similarity(Vectors(heap, verse_data))
    /\ assigned' = assigned \cup {"sim_matrix"}
    /\ pc' = "ready"
    /\ UNCHANGED <<args, bible_json, heap, bible_data, verse_data,
                   bible_verses, raised, earlier, last>>

Answer(verse, total_values) ==
    LET r == get_similar_values(verse, total_values)
    IN  [called |-> TRUE, verse |-> verse, total_values |-> total_values,
         raises |-> r.raises, proper_index |-> r.proper_index,
         final_indices |-> r.final_indices, final_text |-> r.final_text]

\* Insertion of a value into an ascending sequence.
RECURSIVE SortAscending(_)
SortAscending(values) ==
    IF values = <<>> THEN <<>>
    ELSE LET rest == SortAscending(Tail(values))
             low == SelectSeq(rest, LAMBDA x : x <= Head(values))
             high == SelectSeq(rest, LAMBDA x : x > Head(values))
         IN  low \o <<Head(values)>> \o high

\* Query with sim_text sorted in place: sim_text is a view of the matrix row.
QuerySortsRow ==
    /\ pc = "ready"
    /\ \E verse \in QueryRefs, total_values \in 0..MaxCount :
          /\ last' = Answer(verse, total_values)
          /\ sim_matrix' =
                IF last'.proper_index = None THEN sim_matrix
                ELSE [sim_matrix EXCEPT ![last'.proper_index + 1] =
                         <<@[1]>> \o SortAscending(Tail(@))]
    /\ pc' = "answered"
    /\ UNCHANGED <<args, bible_json, heap, assigned, bible_data, verse_data,
                   bible_verses, raised, earlier>>

\* A caller invokes get_similar_values on the constructed instance.
Query ==
    /\ pc = "ready"
    /\ \E verse \in QueryRefs, total_values \in 0..MaxCount :
          last' = Answer(verse, total_values)
    /\ pc' = "answered"
    /\ UNCHANGED <<args, bible_json, heap, assigned, bible_data, verse_data,
                   bible_verses, sim_matrix, raised, earlier>>

\* The caller takes the returned list; the instance serves the next call.
NextRequest ==
    /\ pc = "answered"
    /\ earlier' = earlier \cup
          {IF last.proper_index = None THEN "unknown" ELSE "found"}
    /\ last' = NoCall
    /\ pc' = "ready"
    /\ UNCHANGED <<args, bible_json, heap, assigned, bible_data, verse_data,
                   bible_verses, sim_matrix, raised>>

Next ==
    \/ OpenBible
    \/ FlattenCorpus
    \/ TestingMatrix
    \/ LoadGlove
    \/ Tokenize
    \/ Vectorize
    \/ BuildMatrix
    \/ Query
    \/ NextRequest

Spec == Init /\ [][Next]_vars

---------------------------------------------------------------------------
\* What the claims speak of

CorpusSize == Len(verse_data)

CorpusRefs == {heap[verse_data[i]].verse : i \in 1..Len(verse_data)}

Built == pc \in {"ready", "answered"}

Found == pc = "answered" /\ last.proper_index # None

\* The corpus index of a returned display record.
CorpusIndex(ref) ==
    CHOOSE i \in 0..(Len(bible_verses) - 1) : PyAt(bible_verses, i) = ref

ResultIndex(k) == CorpusIndex(last.final_text[k])

\* The similarity of the queried passage to the passage at corpus index j.
SimToQuery(j) == PyAt(PyAt(sim_matrix, last.proper_index), j)

FileVerses == FlattenVerses(bible_json)

Tokens(i) == heap[verse_data[i]].tokenized_text

\* What the same query returns when asked again now.
RepeatedAnswer == Answer(last.verse, last.total_values)

Block(vector, p) == Canon(NpSlice(vector, p * GloveDim, GloveDim))

\* What a token is to contribute: its GloVe row, or zeros when GloVe lacks it.
ExpectedBlock(word) ==
    IF word \in GloveIndex THEN Canon(GloveRow(word)) ELSE Zeros(GloveDim)

---------------------------------------------------------------------------
\* C1: get_similar_values never returns the queried passage itself: no
\* returned record has the reference of the query.
C1_NeverReturnsQuery ==
    Found =>
        \A k \in 1..Len(last.final_text) :
            heap[last.final_text[k]].verse # last.verse

\* C2: the returned records are those of exactly the min(k, n-1) corpus
\* indices other than the query's with the largest entries in the query's
\* row, and the record at each rank is the record of the column whose value
\* was ranked.
C2_TopRankedOthers ==
    Found =>
        LET got == {ResultIndex(k) : k \in 1..Len(last.final_text)}
            others == (0..(CorpusSize - 1)) \ {last.proper_index}
        IN  /\ Len(last.final_text) = Min(last.total_values, CorpusSize - 1)
            /\ Cardinality(got) = Len(last.final_text)
            /\ got \subseteq others
            /\ \A i \in got, j \in others \ got : SimToQuery(j) <= SimToQuery(i)
            /\ \A k \in 1..Len(last.final_text) :
                  ResultIndex(k) = last.final_indices[k] + 1

\* C3: the returned list is ordered by non-increasing similarity to the
\* query, and of two results of equal similarity the one with the smaller
\* corpus index comes first.
C3_OrderedBySimilarity ==
    Found =>
        \A k \in 1..(Len(last.final_text) - 1) :
            \/ SimToQuery(ResultIndex(k)) > SimToQuery(ResultIndex(k + 1))
            \/ /\ SimToQuery(ResultIndex(k)) = SimToQuery(ResultIndex(k + 1))
               /\ ResultIndex(k) < ResultIndex(k + 1)

\* C4: a query for a reference that is no passage of the corpus ends in an
\* UnknownPassage error, not in a returned list and not in an index error.
C4_UnknownPassageError ==
    (pc = "answered" /\ last.verse \notin CorpusRefs) =>
        last.raises = "UnknownPassage"

C6_VectorLength ==
    pc = "vectorized" =>
        \A i \in 1..Len(verse_data) :
            LET vector == heap[verse_data[i]].vector
                used == Min(Len(Tokens(i)), MAX_LEN)
            IN  /\ Shape0(vector) = MAX_LEN * GloveDim
                /\ Canon(NpSlice(vector, used * GloveDim,
                                 (MAX_LEN - used) * GloveDim))
                      = Zeros((MAX_LEN - used) * GloveDim)
                /\ Len(Tokens(i)) > MAX_LEN =>
                      Block(vector, MAX_LEN - 1) =
                          ExpectedBlock(Tokens(i)[MAX_LEN])

C6_Witness ==
    /\ pc = "vectorized"
    /\ \E i \in 1..Len(verse_data) : Len(Tokens(i)) = 0
    /\ \E i \in 1..Len(verse_data) : Len(Tokens(i)) > MAX_LEN
    /\ \E i \in 1..Len(verse_data) :
          /\ Len(Tokens(i)) \in 1..(MAX_LEN - 1)
          /\ \E p \in 1..Len(Tokens(i)) : Tokens(i)[p] \notin GloveIndex
    /\ \A i \in 1..Len(verse_data) :
          Shape0(heap[verse_data[i]].vector) = MAX_LEN * GloveDim

\* C7: a token among the first MAX_LEN that GloVe lacks makes
\* get_glove_vector raise ValueError; convert_to_glove_vectors puts a zero
\* block at that token's position, the other tokens' rows stay at their own
\* positions, and the error never leaves the build.
C7_MissingWordZeroBlock ==
    /\ pc = "vectorized" =>
          \A i \in 1..Len(verse_data) :
              \A p \in 1..Min(Len(Tokens(i)), MAX_LEN) :
                  IF Tokens(i)[p] \in GloveIndex
                  THEN Block(heap[verse_data[i]].vector, p - 1)
                          = Canon(GloveRow(Tokens(i)[p]))
                  ELSE /\ get_glove_vector(Tokens(i)[p]).raises = "ValueError"
                       /\ Block(heap[verse_data[i]].vector, p - 1)
                             = Zeros(GloveDim)
    /\ pc = "failed" =>
          \/ raised = "ValueError" /\ ~args.bible_file_ok
          \/ raised = "ValueError" /\ ~args.glove_file_ok /\ ~args.testing
          \/ raised = "IndexError" /\ CorpusSize = 0

C7_Witness ==
    /\ pc = "vectorized"
    /\ \E i \in 1..Len(verse_data) :
          /\ Len(Tokens(i)) = 2
          /\ Tokens(i)[1] \notin GloveIndex
          /\ Tokens(i)[2] \in GloveIndex
          /\ Block(heap[verse_data[i]].vector, 0) = Zeros(GloveDim)
          /\ Block(heap[verse_data[i]].vector, 1) = Canon(GloveRow(Tokens(i)[2]))

\* C8: after tokenization, after vectorization, after the matrix is built
\* and in testing mode, bible_verses and verse_data have the same length
\* and at every index the same reference and the same text, which are those
\* of the file in document order.
C8_CollectionsCorrespond ==
    pc \in {"tokenized", "vectorized", "ready", "answered"} =>
        /\ Len(bible_verses) = Len(verse_data)
        /\ Len(verse_data) = Len(FileVerses)
        /\ \A i \in 1..Len(verse_data) :
              /\ heap[bible_verses[i]].verse = heap[verse_data[i]].verse
              /\ heap[bible_verses[i]].text = heap[verse_data[i]].text
              /\ heap[verse_data[i]].verse = FileVerses[i].verse
              /\ heap[verse_data[i]].text = FileVerses[i].text

C8_Witness ==
    /\ pc = "answered"
    /\ ~args.testing
    /\ Len(verse_data) >= 2
    /\ \A i \in 1..Len(verse_data) :
          /\ "vector" \in DOMAIN heap[verse_data[i]]
          /\ "tokenized_text" \notin DOMAIN heap[bible_verses[i]]
          /\ heap[bible_verses[i]].text = FileVerses[i].text
    /\ \E i \in 1..Len(verse_data) :
          Len(Tokens(i)) # Len(heap[verse_data[i]].text)

\* C9: the matrix is assigned only as the last step of a construction that
\* processed every passage; a construction that fails (bible file or GloVe
\* file missing or of the wrong kind) ends before the matrix is assigned,
\* and no query is ever answered by an instance whose build did not
\* complete.
C9_NoPartialIndex ==
    /\ "sim_matrix" \in assigned =>
          /\ Built
          /\ raised = "none"
          /\ Len(sim_matrix) = Len(FileVerses)
          /\ Len(verse_data) = Len(FileVerses)
          /\ ~args.testing =>
                \A i \in 1..Len(verse_data) :
                    "vector" \in DOMAIN heap[verse_data[i]]
    /\ ~args.bible_file_ok => "sim_matrix" \notin assigned
    /\ (~args.testing /\ ~args.glove_file_ok) => "sim_matrix" \notin assigned
    /\ pc = "failed" => raised # "none" /\ "sim_matrix" \notin assigned
    /\ last.called => "sim_matrix" \in assigned /\ raised = "none"

C9_Witness ==
    /\ pc = "failed"
    /\ raised = "ValueError"
    /\ ~args.glove_file_ok
    /\ Len(verse_data) >= 2
    /\ "sim_matrix" \notin assigned
    /\ ~last.called

\* C10: once built, whatever queries are answered (for known and unknown
\* references, in any order), the matrix and both collections stay as the
\* build left them, and an answer is the one a repetition of the same query
\* gets.
C10_QueriesChangeNothing ==
    /\ [][Built =>
            UNCHANGED <<sim_matrix, verse_data, bible_verses, heap, assigned>>]_vars
    /\ [](pc = "answered" => last = RepeatedAnswer)

C10_Witness ==
    /\ Found
    /\ earlier = {"found", "unknown"}
    /\ ~args.testing
    /\ Len(last.final_text) >= 2

=============================================================================
